---- MODULE Spec2Model ----
(***************************************************************************)
(* The GMRES driver (krylov/gmres.py: gmres), the restart wrapper          *)
(* (_RestartedSolver.__init__) and the Arnoldi engine the driver owns.     *)
(*                                                                         *)
(* Floating-point norms are abstracted to small non-negative integers in   *)
(* units of the preconditioned right-hand-side norm; the IEEE values inf   *)
(* and nan, which the driver can produce by dividing by a zero             *)
(* right-hand-side norm, are kept as two distinguished values with the     *)
(* comparison semantics of IEEE floats (every comparison with nan is       *)
(* false).                                                                 *)
(***************************************************************************)
EXTENDS Integers, Sequences, TLC

\* ---------------------------------------------------------------- bounds
\* largest finite (relative) residual value
MaxRes == 2
\* largest maxiter argument
MaxIter == 2
\* problem dimension N = A.shape[0] (the default of maxiter)
Dim == 2
\* largest max_restarts argument of the restart wrapper
MaxRestarts == 2
\* longest residual history one solver run hands to the restart wrapper
MaxRunLen == 1

\* ---------------------------------------------------------------- floats
Vals == 0..MaxRes
Inf == MaxRes + 1
NaN == MaxRes + 2
Tols == (0 - 1)..MaxRes

\* IEEE comparisons: false as soon as one side is nan
Lt(a, b) == a # NaN /\ b # NaN /\ a < b
Le(a, b) == a # NaN /\ b # NaN /\ a <= b
Gt(a, b) == a # NaN /\ b # NaN /\ a > b

\* resnorm / MMlb_norm on numpy floats: x/0 is inf for x > 0 and nan for x = 0
Div(x, d) == IF d = 0 THEN (IF x = 0 THEN NaN ELSE Inf) ELSE x \div d

Last(s) == s[Len(s)]
SetLast(s, v) == [s EXCEPT ![Len(s)] = v]

\* ---------------------------------------------------------------- vectors
\* A vector the driver handles: None, or base + the Krylov correction of
\* iteration k (k = 0: the base itself).
NoneVec == [base |-> "None", k |-> 0]
Zeros == [base |-> "zeros", k |-> 0]
GivenX0 == [base |-> "x0", k |-> 0]

\* ---------------------------------------------------------------- Arnoldi
Orthos == {"mgs", "dmgs", "house", "lanczos"}

NoArnoldi ==
  [status |-> "none", maxiter |-> 0, ortho |-> "mgs", M |-> FALSE, iter |-> 0,
   invariant |-> FALSE, V |-> <<>>, P |-> <<>>, H |-> <<>>]

\* Arnoldi(A, v, maxiter, ortho, M, Mv, Mv_norm, inner): the fresh engine.
\* vnorm is the norm of the start vector, Mactive whether a left
\* preconditioner M is given, innerStd whether inner is the Euclidean one.
ArnoldiInit(maxit, ortho, Mactive, innerStd, vnorm) ==
  LET fresh == [NoArnoldi EXCEPT !.maxiter = maxit, !.ortho = ortho, !.M = Mactive]
  IN  IF ortho = "house" /\ (Mactive \/ ~innerStd)
        THEN [fresh EXCEPT !.status = "ConfigurationError"]
      ELSE IF vnorm = 0
        THEN [fresh EXCEPT !.status = "DegenerateInputError"]
      ELSE [fresh EXCEPT !.status = "ok",
                         !.V = <<0>>,
                         !.P = IF Mactive THEN <<0>> ELSE <<>>]

\* May advance be called on engine a?
ArnoldiCanAdvance(a) == a.iter < a.maxiter /\ ~a.invariant

\* advance with a slip: the basis grows even when the subspace is invariant
ArnoldiAdvanceAlwaysAppends(a, inv) ==
  IF ~ArnoldiCanAdvance(a)
    THEN [a EXCEPT !.status = "StateError"]
    ELSE [a EXCEPT !.H = Append(@, IF inv THEN "zero" ELSE "pos"),
                   !.invariant = inv,
                   !.V = Append(@, a.iter + 1),
                   !.P = IF ~a.M THEN @ ELSE Append(@, a.iter + 1),
                   !.iter = @ + 1]

\* advance: one new Hessenberg column; a new basis vector unless the
\* orthogonalized vector has (numerically) zero norm (inv).
ArnoldiAdvance(a, inv) ==
  IF ~ArnoldiCanAdvance(a)
    THEN [a EXCEPT !.status = "StateError"]
    ELSE [a EXCEPT !.H = Append(@, IF inv THEN "zero" ELSE "pos"),
                   !.invariant = inv,
                   !.V = IF inv THEN @ ELSE Append(@, a.iter + 1),
                   !.P = IF inv \/ ~a.M THEN @ ELSE Append(@, a.iter + 1),
                   !.iter = @ + 1]

\* get: V (all vectors), the shape of the H that is handed out, and P
\* (None, here <<>> with hasP = FALSE, without a preconditioner).
ArnoldiGet(a) ==
  [V |-> a.V,
   Hrows |-> IF a.invariant THEN a.iter ELSE a.iter + 1,
   Hcols |-> a.iter,
   hasP |-> a.M,
   P |-> a.P]

NoGet == [V |-> <<>>, Hrows |-> 0, Hcols |-> 0, hasP |-> FALSE, P |-> <<>>]

\* ---------------------------------------------------------------- state
VARIABLES
  args,         \* the arguments of the gmres call
  pc,           \* position of the gmres call
  maxiter,      \* sanitized maxiter
  x0,           \* initial guess (after sanitizing)
  xk,           \* current iterate, NoneVec when not reconstructed
  MMlr0_norm,   \* norm of the initial residual
  MMlb_norm,    \* norm of the preconditioned right-hand side
  resnorms,     \* relative residual history
  errnorms,     \* number of recorded error norms (exact_solution given)
  arnoldi,      \* the Arnoldi engine
  G,            \* number of Givens rotations
  y,            \* |y[k+1]|, the last entry of the projected right-hand side
  iter,         \* the driver's local iter
  resnorm,      \* the driver's local resnorm (absolute)
  stored,       \* what arnoldi.get() handed to the driver (store_arnoldi)
  result,       \* the returned (solution, info)
  error,        \* the raised exception
  applied_A,    \* history: number of applications of A so far
  advance_calls,\* history: number of calls of arnoldi.advance
  updLog,       \* history: the updated relative estimate of each iteration
  explicitLog,  \* history: explicit residual computations in each iteration
  resSrc,       \* history: where each entry of resnorms comes from
  rs,           \* the restart wrapper (self, locals, position)
  af            \* the arnoldi function (engine, result, position)

gvars == <<args, pc, maxiter, x0, xk, MMlr0_norm, MMlb_norm, resnorms, errnorms,
           arnoldi, G, y, iter, resnorm, stored, result, error, applied_A,
           advance_calls, updLog, explicitLog, resSrc>>
vars == <<gvars, rs, af>>

NoResult == [solution |-> NoneVec, resnorms |-> <<>>, A |-> 0, M |-> 0, Ml |-> 0,
             Mr |-> 0, inner |-> 0, axpy |-> 0]
\* what an exception carries besides its message: nothing, or a solver state
NoState == [has |-> FALSE, resnorms |-> <<>>, basis |-> NoGet]
NoError == [type |-> "none", maxiter |-> 0, residual |-> 0, carried |-> NoState]

Args ==
  [b : {"zero", "nonzero"},
   x0 : {"None", "given"},
   tol : Tols,
   maxiter : {<<>>} \cup {<<m>> : m \in 0..MaxIter},
   use_explicit_residual : BOOLEAN,
   store_arnoldi : BOOLEAN,
   M : {"None", "Op"},
   exact_solution : BOOLEAN,
   ortho : {"mgs", "house"}]

RsIdle == [pc |-> "idle"]
AfIdle == [pc |-> "idle"]

\* the state before the first statement of gmres
GmresFresh ==
  /\ maxiter = 0
  /\ x0 = NoneVec
  /\ xk = NoneVec
  /\ MMlr0_norm = 0
  /\ MMlb_norm = 0
  /\ resnorms = <<>>
  /\ errnorms = 0
  /\ arnoldi = NoArnoldi
  /\ G = 0
  /\ y = 0
  /\ iter = 0
  /\ resnorm = 0
  /\ stored = NoGet
  /\ result = NoResult
  /\ error = NoError
  /\ applied_A = 0
  /\ advance_calls = 0
  /\ updLog = <<>>
  /\ explicitLog = <<>>
  /\ resSrc = <<>>

GmresInit == args \in Args /\ pc = "start" /\ GmresFresh
GmresIdle == args = <<>> /\ pc = "idle" /\ GmresFresh

Init == GmresInit /\ rs = RsIdle /\ af = AfIdle

\* ---------------------------------------------------------------- gmres
\* _get_xk(y): x0 plus the correction from the first arnoldi.iter columns
GetXk(a) == [base |-> x0.base, k |-> a.iter]

\* the loop condition with a slip: the invariant flag is not looked at
LoopGuardIgnoresInvariant(resn, tol, a) ==
  Gt(Last(resn), tol) /\ a.iter < a.maxiter

\* the loop condition of the driver
LoopGuard(resn, tol, a) ==
  Gt(Last(resn), tol) /\ a.iter < a.maxiter /\ ~a.invariant

\* the tolerance test with a slip: < instead of <=
BelowTolStrict(rel, tol) == Lt(rel, tol)

\* "if resnorm / MMlb_norm <= tol"
BelowTol(rel, tol) == Le(rel, tol)

\* the confirmation with a slip: the explicit residual is appended
ConfirmedHistoryAppends(resn, rel) == Append(resn, rel)

\* "resnorms[-1] = rkn / MMlb_norm"
ConfirmedHistory(resn, rel) == SetLast(resn, rel)

\* the returned solution with a slip: <= instead of <
SolutionNonStrict(x, resn, tol) == IF Le(Last(resn), tol) THEN x ELSE NoneVec

\* "xk if resnorms[-1] < tol else None"
Solution(x, resn, tol) == IF Lt(Last(resn), tol) THEN x ELSE NoneVec

\* the operations dict
Operations(it) ==
  [A |-> 1 + it, M |-> 2 + it, Ml |-> 2 + it, Mr |-> 1 + it,
   inner |-> 2 + it + (it * (it + 1)) \div 2,
   axpy |-> 4 + 2 * it + (it * (it + 1)) \div 2]

\* sanitize maxiter and x0, compute the initial residual (one application of A)
InitialResidual ==
  /\ pc = "start"
  /\ maxiter' = IF args.maxiter = <<>> THEN Dim ELSE args.maxiter[1]
  /\ x0' = IF args.x0 = "None" THEN Zeros ELSE GivenX0
  /\ \E r \in Vals :
       /\ args.x0 = "None" => r = (IF args.b = "zero" THEN 0 ELSE 1)
       /\ MMlr0_norm' = r
  /\ applied_A' = applied_A + 1
  /\ xk' = NoneVec
  /\ iter' = 0
  /\ pc' = "seed"
  /\ UNCHANGED <<args, MMlb_norm, resnorms, errnorms, arnoldi, G, y, resnorm,
                 stored, result, error, updLog, explicitLog, resSrc, advance_calls, rs, af>>

\* the norm of the right-hand side and the first entry of the history
SeedHistory ==
  /\ pc = "seed"
  /\ MMlb_norm' = IF args.b = "zero" THEN 0 ELSE 1
  /\ IF MMlb_norm' = 0
       THEN /\ xk' = Zeros
            /\ x0' = Zeros
            /\ resnorms' = <<0>>
       ELSE /\ resnorms' = <<Div(MMlr0_norm, MMlb_norm')>>
            /\ UNCHANGED <<xk, x0>>
  /\ resSrc' = <<[src |-> "initial", k |-> 0]>>
  /\ errnorms' = IF args.exact_solution THEN 1 ELSE 0
  /\ pc' = "arnoldi"
  /\ UNCHANGED <<args, maxiter, MMlr0_norm, arnoldi, G, y, iter, resnorm, stored,
                 result, error, applied_A, updLog, explicitLog, advance_calls, rs, af>>

\* Arnoldi(MlAMr, Mlr0, maxiter, ortho, M, Mv, Mv_norm, inner), G, R and y
ConstructArnoldi ==
  /\ pc = "arnoldi"
  /\ arnoldi' = ArnoldiInit(maxiter, args.ortho, args.M # "None", TRUE, MMlr0_norm)
  /\ IF arnoldi'.status = "ok"
       THEN /\ pc' = "loop"
            /\ error' = error
       ELSE /\ pc' = "failed"
            /\ error' = [NoError EXCEPT !.type = arnoldi'.status]
  /\ G' = 0
  /\ y' = MMlr0_norm
  /\ UNCHANGED <<args, maxiter, x0, xk, MMlr0_norm, MMlb_norm, resnorms, errnorms,
                 iter, resnorm, stored, result, applied_A, updLog, explicitLog,
                 resSrc, advance_calls, rs, af>>

\* one pass of the loop body up to resnorms.append
Iterate ==
  /\ pc = "loop"
  /\ LoopGuard(resnorms, args.tol, arnoldi)
  /\ \E inv \in BOOLEAN, upd \in 0..y,
        rkn \in (IF args.use_explicit_residual THEN Vals ELSE {0}) :
       LET a == ArnoldiAdvance(arnoldi, inv)
           abs == IF args.use_explicit_residual THEN rkn ELSE upd
       IN  /\ iter' = arnoldi.iter
           /\ advance_calls' = advance_calls + 1
           /\ arnoldi' = a
           /\ IF a.status # "ok"
                THEN /\ pc' = "failed"
                     /\ error' = [NoError EXCEPT !.type = a.status]
                     /\ UNCHANGED <<G, y, xk, errnorms, resnorm, resnorms,
                                    applied_A, updLog, explicitLog, resSrc>>
                ELSE /\ pc' = "check"
                     /\ error' = error
                     /\ G' = G + 1
                     /\ y' = upd
                     /\ xk' = IF args.exact_solution \/ args.use_explicit_residual
                                THEN GetXk(a) ELSE NoneVec
                     /\ errnorms' = IF args.exact_solution THEN errnorms + 1
                                    ELSE errnorms
                     /\ resnorm' = abs
                     /\ resnorms' = Append(resnorms, Div(abs, MMlb_norm))
                     /\ applied_A' = applied_A + 1
                                     + (IF args.use_explicit_residual THEN 1 ELSE 0)
                     /\ updLog' = Append(updLog, Div(upd, MMlb_norm))
                     /\ explicitLog' = Append(explicitLog,
                                          IF args.use_explicit_residual THEN 1 ELSE 0)
                     /\ resSrc' = Append(resSrc,
                                    [src |-> IF args.use_explicit_residual
                                               THEN "explicit" ELSE "updated",
                                     k |-> a.iter])
  /\ UNCHANGED <<args, maxiter, x0, MMlr0_norm, MMlb_norm, stored, result, rs, af>>

\* the residual is below the tolerance: confirm an updated estimate by the
\* explicit residual, which replaces the last entry of the history
ConfirmResidual ==
  /\ pc = "check"
  /\ BelowTol(Div(resnorm, MMlb_norm), args.tol)
  /\ IF ~args.use_explicit_residual
       THEN \E rkn \in Vals :
              /\ xk' = IF xk = NoneVec THEN GetXk(arnoldi) ELSE xk
              /\ resnorms' = ConfirmedHistory(resnorms, Div(rkn, MMlb_norm))
              /\ applied_A' = applied_A + 1
              /\ explicitLog' = SetLast(explicitLog, Last(explicitLog) + 1)
              /\ resSrc' = SetLast(resSrc, [src |-> "explicit", k |-> xk'.k])
       ELSE UNCHANGED <<xk, resnorms, applied_A, explicitLog, resSrc>>
  /\ pc' = "loop"
  /\ UNCHANGED <<args, maxiter, x0, MMlr0_norm, MMlb_norm, errnorms, arnoldi, G, y,
                 iter, resnorm, stored, result, error, updLog, advance_calls, rs, af>>

\* "if store_arnoldi": V, H, P = arnoldi.get() with M given; without M the
\* driver unpacks the three values into two names
StoreFails == args.store_arnoldi /\ args.M = "None"
StoredGet == IF args.store_arnoldi /\ ~StoreFails THEN ArnoldiGet(arnoldi) ELSE stored

\* no convergence in the last iteration
RaiseNoConvergence ==
  /\ pc = "check"
  /\ ~BelowTol(Div(resnorm, MMlb_norm), args.tol)
  /\ iter + 1 = maxiter
  /\ stored' = StoredGet
  /\ IF StoreFails
       THEN /\ pc' = "failed"
            /\ error' = [NoError EXCEPT !.type = "ValueError"]
       ELSE /\ pc' = "raised"
            /\ error' = [type |-> "ConvergenceError", maxiter |-> maxiter,
                         residual |-> Last(resnorms), carried |-> NoState]
  /\ UNCHANGED <<args, maxiter, x0, xk, MMlr0_norm, MMlb_norm, resnorms, errnorms,
                 arnoldi, G, y, iter, resnorm, result, applied_A, updLog,
                 explicitLog, resSrc, advance_calls, rs, af>>

\* neither below the tolerance nor the last iteration: back to the loop test
NextIteration ==
  /\ pc = "check"
  /\ ~BelowTol(Div(resnorm, MMlb_norm), args.tol)
  /\ iter + 1 # maxiter
  /\ pc' = "loop"
  /\ UNCHANGED <<args, maxiter, x0, xk, MMlr0_norm, MMlb_norm, resnorms, errnorms,
                 arnoldi, G, y, iter, resnorm, stored, result, error, applied_A,
                 updLog, explicitLog, resSrc, advance_calls, rs, af>>

\* after the loop: the solution, the retained basis, the operation counts
Finish ==
  /\ pc = "loop"
  /\ ~LoopGuard(resnorms, args.tol, arnoldi)
  /\ xk' = IF xk = NoneVec THEN GetXk(arnoldi) ELSE xk
  /\ stored' = StoredGet
  /\ IF StoreFails
       THEN /\ pc' = "failed"
            /\ error' = [NoError EXCEPT !.type = "ValueError"]
            /\ result' = result
       ELSE /\ pc' = "returned"
            /\ error' = error
            /\ result' = Operations(iter) @@
                         [solution |-> Solution(xk', resnorms, args.tol),
                          resnorms |-> resnorms]
  /\ UNCHANGED <<args, maxiter, x0, MMlr0_norm, MMlb_norm, resnorms, errnorms,
                 arnoldi, G, y, iter, resnorm, applied_A, updLog, explicitLog,
                 resSrc, advance_calls, rs, af>>

GmresNext ==
  \/ InitialResidual
  \/ SeedHistory
  \/ ConstructArnoldi
  \/ Iterate
  \/ ConfirmResidual
  \/ RaiseNoConvergence
  \/ NextIteration
  \/ Finish

Next == GmresNext

Spec == Init /\ [][Next]_vars

\* ---------------------------------------------------------------- restarts
\* _RestartedSolver.__init__ up to the loop: self.xk, self.resnorms, tol,
\* restart; kwargs holds the caller's x0 (or none) and the caller's tol.
RsArgs ==
  [max_restarts : 0..MaxRestarts, tol : Tols, x0 : {NoneVec, GivenX0}]

RsStart(a) ==
  [pc |-> "loop", max_restarts |-> a.max_restarts, kw_tol |-> a.tol,
   kw_x0 |-> a.x0, xk |-> NoneVec, resnorms |-> <<Inf>>, tol |-> <<>>,
   restart |-> 0, error |-> NoError, calls |-> <<>>]

\* what one run of Solver leaves in sol (returned, or e.solver of a
\* ConvergenceError): histories of 1..MaxRunLen finite entries
RunHistories == UNION {[1..n -> Vals] : n \in 1..MaxRunLen}

\* the restart condition with a slip: one restart too many
RestartGuardOneMore(r) ==
  IF r.restart = 0 THEN TRUE
  ELSE Gt(Last(r.resnorms), r.tol[1]) /\ r.restart <= r.max_restarts + 1

\* "restart == 0 or (self.resnorms[-1] > tol and restart <= max_restarts)"
\* (tol is still None when restart == 0: the second operand is not evaluated)
RestartGuard(r) ==
  IF r.restart = 0 THEN TRUE
  ELSE Gt(Last(r.resnorms), r.tol[1]) /\ r.restart <= r.max_restarts

\* "del self.resnorms[-1]; self.resnorms += sol.resnorms"
Accumulate(acc, run) == SubSeq(acc, 1, Len(acc) - 1) \o run

\* one pass of the loop: a run of Solver and the bookkeeping after it
RsRun ==
  /\ rs.pc = "loop"
  /\ RestartGuard(rs)
  /\ \E outcome \in {"returned", "ConvergenceError"}, h \in RunHistories :
       LET passed == IF rs.xk # NoneVec THEN rs.xk ELSE rs.kw_x0
           sol == [xk |-> [base |-> "run", k |-> rs.restart + 1],
                   tol |-> rs.kw_tol, resnorms |-> h]
       IN  rs' = [rs EXCEPT
                    !.kw_x0 = passed,
                    !.xk = sol.xk,
                    !.tol = <<sol.tol>>,
                    !.resnorms = Accumulate(@, sol.resnorms),
                    !.restart = @ + 1,
                    !.calls = Append(@, [x0 |-> passed, xk |-> sol.xk,
                                         before |-> Last(rs.resnorms)])]
  /\ UNCHANGED <<gvars, af>>

\* a run of Solver that fails with anything but ConvergenceError
RsRunFails ==
  /\ rs.pc = "loop"
  /\ RestartGuard(rs)
  /\ LET passed == IF rs.xk # NoneVec THEN rs.xk ELSE rs.kw_x0
     IN  rs' = [rs EXCEPT
                  !.pc = "propagated",
                  !.kw_x0 = passed,
                  !.error = [NoError EXCEPT !.type = "SolverError"],
                  !.calls = Append(@, [x0 |-> passed, xk |-> NoneVec,
                                       before |-> Last(rs.resnorms)])]
  /\ UNCHANGED <<gvars, af>>

\* after the loop: "if self.resnorms[-1] > tol: raise"
RsEnd ==
  /\ rs.pc = "loop"
  /\ ~RestartGuard(rs)
  /\ rs' = IF Gt(Last(rs.resnorms), rs.tol[1])
             THEN [rs EXCEPT !.pc = "raised",
                             !.error = [type |-> "ConvergenceError",
                                        maxiter |-> rs.max_restarts,
                                        residual |-> Last(rs.resnorms),
                                        carried |-> [NoState EXCEPT !.has = TRUE,
                                                     !.resnorms = rs.resnorms]]]
             ELSE [rs EXCEPT !.pc = "done"]
  /\ UNCHANGED <<gvars, af>>

RsInit == GmresIdle /\ af = AfIdle /\ \E a \in RsArgs : rs = RsStart(a)
RsNext == RsRun \/ RsRunFails \/ RsEnd
SpecRestart == RsInit /\ [][RsNext]_vars

\* ---------------------------------------------------------------- arnoldi
\* krylov.arnoldi(A, v, maxiter, ortho, M, inner): an engine that is
\* constructed, advanced and read with get.
AfArgs ==
  [maxiter : 0..MaxIter, ortho : Orthos, M : BOOLEAN, innerStd : BOOLEAN,
   vnorm : 0..1]

AfConstruct ==
  /\ af.pc = "call"
  /\ LET a == ArnoldiInit(af.args.maxiter, af.args.ortho, af.args.M,
                          af.args.innerStd, af.args.vnorm)
     IN  af' = [af EXCEPT !.pc = IF a.status = "ok" THEN "engine" ELSE "failed",
                          !.eng = a]
  /\ UNCHANGED <<gvars, rs>>

AfAdvance ==
  /\ af.pc = "engine"
  /\ ArnoldiCanAdvance(af.eng)
  /\ \E inv \in BOOLEAN : af' = [af EXCEPT !.eng = ArnoldiAdvance(@, inv)]
  /\ UNCHANGED <<gvars, rs>>

AfGet ==
  /\ af.pc = "engine"
  /\ af' = [af EXCEPT !.pc = "returned", !.out = ArnoldiGet(af.eng)]
  /\ UNCHANGED <<gvars, rs>>

AfInit ==
  /\ GmresIdle
  /\ rs = RsIdle
  /\ \E a \in AfArgs : af = [pc |-> "call", args |-> a, eng |-> NoArnoldi, out |-> NoGet]
AfNext == AfConstruct \/ AfAdvance \/ AfGet
SpecArnoldi == AfInit /\ [][AfNext]_vars

\* ---------------------------------------------------------------- claims
Terminal == {"returned", "raised", "failed"}
Seeded == {"arnoldi", "loop", "check", "returned", "raised", "failed"}
RsTerminal == {"done", "raised", "propagated"}

\* C1: when gmres returns normally, the returned solution is not None
\* exactly when the last entry of the returned residual history is strictly
\* below tol; a last entry equal to tol returns None.
C1_SolutionIffBelowTol ==
  pc = "returned" =>
    ((result.solution # NoneVec) <=> Lt(Last(result.resnorms), args.tol))

\* C1 witness: a run of at least one iteration returns with its last
\* residual equal to tol, and returns None.
C1_Witness ==
  /\ pc = "returned"
  /\ arnoldi.iter >= 1
  /\ Last(result.resnorms) = args.tol
  /\ result.solution = NoneVec

\* C2 (the claim as stated, already for a positive tol): gmres never returns
\* normally after its last permitted iteration (arnoldi.iter = maxiter, at
\* least one iteration done) with a last relative residual above tol.
C2_NoReturnAboveTolAfterLastIteration ==
  (pc = "returned" /\ args.tol > 0 /\ arnoldi.iter >= 1 /\ arnoldi.iter = maxiter)
    => ~Gt(Last(result.resnorms), args.tol)

\* C3 (the claim as stated, already for a positive tol): with a zero
\* right-hand side, A is never applied, no Arnoldi engine is constructed, and
\* the call ends by returning the zero vector with the residual history [0.0].
C3_ZeroRhsReturnsImmediately ==
  (args.b = "zero" /\ args.tol > 0) =>
    /\ applied_A = 0
    /\ arnoldi.status = "none"
    /\ pc \in Terminal =>
         /\ pc = "returned"
         /\ result.solution = Zeros
         /\ result.resnorms = <<0>>

\* C4: once the history is seeded it has exactly one entry more than the
\* Arnoldi engine has completed iterations, also in the returned info; the
\* explicit confirmation replaces the last entry.
C4_HistoryLength ==
  /\ pc \in Seeded => Len(resnorms) = arnoldi.iter + 1
  /\ pc = "returned" => Len(result.resnorms) = arnoldi.iter + 1

\* C4 witness: the second iteration's estimate was confirmed explicitly (the
\* last entry was overwritten) and the loop test is reached again.
C4_Witness ==
  /\ pc = "loop"
  /\ ~args.use_explicit_residual
  /\ Len(explicitLog) = 2
  /\ explicitLog[2] = 1
  /\ Last(resSrc).src = "explicit"

\* C5 (the claim as stated, already for a positive tol): the ConvergenceError
\* of the last iteration carries the residual history and, with
\* store_arnoldi, the retained basis.
C5_ErrorCarriesState ==
  (pc = "raised" /\ args.tol > 0) =>
    /\ error.type = "ConvergenceError"
    /\ error.carried.has
    /\ error.carried.resnorms = resnorms
    /\ args.store_arnoldi => error.carried.basis = stored

\* C6 (the claim as stated, already for a positive tol): on a normal return
\* the "A" entry of the operation counts is the number of applications of A
\* in the run.
C6_OperationCountA ==
  (pc = "returned" /\ args.tol > 0) => result.A = applied_A

\* C7: the wrapper runs the solver at least once and at most max_restarts+1
\* times; every run after the first gets the previous run's xk as x0 and is
\* started only while the last accumulated residual is above tol; the
\* wrapper ends with ConvergenceError exactly when the last accumulated
\* residual is above tol, and then the restarts are exhausted.
C7_RestartProtocol ==
  LET n == Len(rs.calls)
  IN  rs.pc # "idle" =>
        /\ n <= rs.max_restarts + 1
        /\ rs.pc \in RsTerminal => n >= 1
        /\ \A i \in 2..n :
             /\ rs.calls[i].x0 = rs.calls[i - 1].xk
             /\ Gt(rs.calls[i].before, rs.kw_tol)
        /\ rs.pc \in {"done", "raised"} =>
             ((rs.pc = "raised") <=> Gt(Last(rs.resnorms), rs.kw_tol))
        /\ rs.pc = "raised" =>
             /\ n = rs.max_restarts + 1
             /\ rs.error.type = "ConvergenceError"
        /\ (rs.pc = "done" /\ n <= rs.max_restarts) =>
             Le(Last(rs.resnorms), rs.kw_tol)

\* C7 witness: two restarts were allowed and used, and the residual is still
\* above tol: the wrapper raises.
C7_Witness ==
  /\ rs.pc = "raised"
  /\ rs.max_restarts = 2
  /\ Len(rs.calls) = 3

\* C8: what get hands out has at most maxiter Hessenberg columns, and V has
\* as many vectors as H has rows: k+1 without, k with an invariant subspace.
C8_ArnoldiShapes ==
  af.pc = "returned" =>
    /\ af.out.Hcols <= af.args.maxiter
    /\ Len(af.out.V) = af.out.Hrows
    /\ Len(af.out.V) = IF af.eng.invariant THEN af.out.Hcols ELSE af.out.Hcols + 1

\* C8 witness: an invariant subspace is detected in the second iteration and
\* the result is read.
C8_Witness ==
  /\ af.pc = "returned"
  /\ af.eng.invariant
  /\ af.out.Hcols = 2

C10_NeverAdvancesTerminalEngine ==
  /\ arnoldi.status # "StateError"
  /\ error.type # "StateError"
  /\ advance_calls <= maxiter
  /\ advance_calls = arnoldi.iter

\* C10 witness: an invariant subspace stopped the loop while the residual was
\* still above tol and iterations were left.
C10_Witness ==
  /\ pc = "returned"
  /\ arnoldi.invariant
  /\ arnoldi.iter < maxiter
  /\ Gt(Last(resnorms), args.tol)

====
